---- MODULE Spec2Model ----
(***************************************************************************)
(* Model of scripts/s3-presigner.py: the S3PresignerHandler request        *)
(* handlers (do_OPTIONS, do_GET, do_POST) and the URL-to-(bucket, key)     *)
(* parsing of generate_presigned_url_from_s3_url.                          *)
(*                                                                         *)
(* Strings are sequences of tokens.  A token is one character, except the  *)
(* two tokens SUF and BARE, which stand for the literal texts              *)
(* ".s3.amazonaws.com" and "s3.amazonaws.com".  No other token contains a  *)
(* dot, so ".s3.amazonaws.com" occurs in a string exactly where the token  *)
(* SUF occurs, and a string equals "s3.amazonaws.com" exactly when it is   *)
(* <<BARE>>.  Every target URL of the model starts with "https://"; the    *)
(* token sequence is the text that follows it.                             *)
(***************************************************************************)
EXTENDS Integers, Sequences, FiniteSets, TLC

(* Spec runs one handler on one request: the server handles a request to  *)
(* completion and keeps nothing from it.  SpecParse runs                   *)
(* generate_presigned_url_from_s3_url alone on longer URLs.                *)

VARIABLES
    phase,      \* "received" -> "done" (a handler), "call" -> "returned" (the parser)
    request,    \* the request being handled
    env,        \* what the outside did: the provider's outcome, the writes the socket took
    wire,       \* what was written to the client, in order
    log,        \* the request/response log records printed
    calls,      \* the invocations of the provider's generate_presigned_url
    gen,        \* the result of generate_presigned_url_from_s3_url, if it was called
    escaped     \* an exception left the handler

vars == <<phase, request, env, wire, log, calls, gen, escaped>>

----------------------------------------------------------------------------
(* Bounds *)

MaxUrlLen == 4
MaxParseLen == 6
MaxOkWrites == 3

SUF == ".s3.amazonaws.com"
BARE == "s3.amazonaws.com"

Tokens == {"a", "/", "?", "#", ";", SUF, BARE}

ExpiresChoices == {120, 7200}

RECURSIVE SeqsUpTo(_, _)
SeqsUpTo(S, n) ==
    IF n = 0 THEN {<<>>}
    ELSE LET shorter == SeqsUpTo(S, n - 1)
         IN  shorter \cup {Append(s, t) : s \in {x \in shorter : Len(x) = n - 1}, t \in S}

----------------------------------------------------------------------------
(* String helpers (str.find, slicing, str.lstrip, str.split) *)

\* s.find(c, from): least index i >= from with s[i] = c, or 0 when there is none
RECURSIVE FindFrom(_, _, _)
FindFrom(s, c, from) ==
    IF from > Len(s) THEN 0
    ELSE IF s[from] = c THEN from
    ELSE FindFrom(s, c, from + 1)

Find(s, c) == FindFrom(s, c, 1)

\* s.rfind(c): greatest index i with s[i] = c, or 0
RECURSIVE RFindFrom(_, _, _)
RFindFrom(s, c, from) ==
    IF from < 1 THEN 0
    ELSE IF s[from] = c THEN from
    ELSE RFindFrom(s, c, from - 1)

RFind(s, c) == RFindFrom(s, c, Len(s))

Contains(s, c) == Find(s, c) # 0

\* s[:i-1] and s[i+1:] around position i
Before(s, i) == SubSeq(s, 1, i - 1)
After(s, i) == SubSeq(s, i + 1, Len(s))

\* s.lstrip('/'): every leading slash is removed
RECURSIVE LStripSlashes(_)
LStripSlashes(s) ==
    IF s # <<>> /\ Head(s) = "/" THEN LStripSlashes(Tail(s)) ELSE s

\* s.split('/', 1): at most one split, on the first slash
SplitFirstSlash(s) ==
    LET i == Find(s, "/")
    IN  IF i = 0 THEN <<s>> ELSE <<Before(s, i), After(s, i)>>

----------------------------------------------------------------------------
(* urllib.parse.urlparse on "https://" + rest *)

\* _splitnetloc: the netloc ends at the first of '/', '?', '#'
RECURSIVE NetlocEnd(_, _)
NetlocEnd(s, i) ==
    IF i > Len(s) THEN Len(s) + 1
    ELSE IF s[i] \in {"/", "?", "#"} THEN i
    ELSE NetlocEnd(s, i + 1)

\* _splitparams: the parameters of the last path segment
SplitParams(url) ==
    LET i == IF Contains(url, "/")
             THEN FindFrom(url, ";", RFind(url, "/"))
             ELSE Find(url, ";")
    IN  IF i = 0 THEN [path |-> url, params |-> <<>>]
        ELSE [path |-> Before(url, i), params |-> After(url, i)]

urlparse(rest) ==
    LET e         == NetlocEnd(rest, 1)
        netloc    == SubSeq(rest, 1, e - 1)
        url0      == SubSeq(rest, e, Len(rest))
        h         == Find(url0, "#")
        url1      == IF h = 0 THEN url0 ELSE Before(url0, h)
        fragment  == IF h = 0 THEN <<>> ELSE After(url0, h)
        q         == Find(url1, "?")
        url2      == IF q = 0 THEN url1 ELSE Before(url1, q)
        query     == IF q = 0 THEN <<>> ELSE After(url1, q)
        sp        == IF Contains(url2, ";") THEN SplitParams(url2)
                     ELSE [path |-> url2, params |-> <<>>]
    IN  [scheme |-> "https", netloc |-> netloc, path |-> sp.path,
         params |-> sp.params, query |-> query, fragment |-> fragment]

----------------------------------------------------------------------------
(* Exceptions and messages *)

NoUrl == <<>>

Msg(wrap, text, url) == [wrap |-> wrap, text |-> text, url |-> url]

WRAP_GENERIC == "Error generating presigned URL: "
WRAP_CLIENT == "AWS client error: "
TXT_UNRECOGNIZED == "Unrecognized S3 URL format: "
TXT_INCOMPLETE == "Could not extract bucket and key from URL: "
TXT_NOCREDS == "AWS credentials not found. Please configure your AWS credentials."

DEFAULT_EXPIRES_IN == 3600

\* the outcomes of boto3's generate_presigned_url
DelegateOutcomes == {"ok", "NoCredentialsError", "ClientError", "Exception"}

\* the URL the provider returns, an opaque function of its arguments
Sign(bucket, key, expires) == [signed_bucket |-> bucket, signed_key |-> key, signed_expires |-> expires]

NoSigned == [signed_bucket |-> <<>>, signed_key |-> <<>>, signed_expires |-> 0]

\* the result of a call: the exception raised, or the value returned, and
\* the invocations of the provider it made
Raised(msg, made) == [raised |-> TRUE, msg |-> msg, value |-> NoSigned, calls |-> made]
Returns(value, made) == [raised |-> FALSE, msg |-> Msg("", "", NoUrl), value |-> value, calls |-> made]

\* the branches on the parsed URL that yield bucket and key
BucketKeyOf(parsed) ==
    IF Contains(parsed.netloc, SUF)
    THEN [fmt |-> "virtual",
          bucket |-> Before(parsed.netloc, Find(parsed.netloc, SUF)),
          key |-> LStripSlashes(parsed.path)]
    ELSE IF parsed.netloc = <<BARE>>
    THEN LET path_parts == SplitFirstSlash(LStripSlashes(parsed.path))
         IN  [fmt |-> "path",
              bucket |-> path_parts[1],
              key |-> IF Len(path_parts) > 1 THEN path_parts[2] ELSE <<>>]
    ELSE [fmt |-> "unrecognized", bucket |-> <<>>, key |-> <<>>]

ExtractBucketKey(s3_url) == BucketKeyOf(urlparse(s3_url))

\* s3_client.generate_presigned_url('get_object', Params, ExpiresIn) and the
\* except clauses around it; d is the outcome of the provider
SignWith(bucket, key, expires_in, d, made) ==
    CASE d = "ok" -> Returns(Sign(bucket, key, expires_in), made)
      [] d = "NoCredentialsError" -> Raised(Msg("", TXT_NOCREDS, NoUrl), made)
      [] d = "ClientError" -> Raised(Msg(WRAP_CLIENT, "ClientError", NoUrl), made)
      [] OTHER -> Raised(Msg(WRAP_GENERIC, "Exception", NoUrl), made)

\* the checks on the extracted bucket and key, then the provider call
GenerateFrom(bk, s, expires_in, d) ==
    IF bk.fmt = "unrecognized"
    THEN Raised(Msg(WRAP_GENERIC, TXT_UNRECOGNIZED, s), <<>>)
    ELSE IF bk.bucket = <<>> \/ bk.key = <<>>
    THEN Raised(Msg(WRAP_GENERIC, TXT_INCOMPLETE, s), <<>>)
    ELSE SignWith(bk.bucket, bk.key, expires_in, d,
                  <<[Bucket |-> bk.bucket, Key |-> bk.key, ExpiresIn |-> expires_in]>>)

\* generate_presigned_url_from_s3_url(s3_url, expires_in); u is the url
\* argument [isStr, s], d the outcome of the provider call if it is reached
generate_presigned_url_from_s3_url(u, expires_in, d) ==
    IF ~u.isStr
    THEN Raised(Msg(WRAP_GENERIC, "'int' object has no attribute 'decode'", NoUrl), <<>>)
    ELSE GenerateFrom(ExtractBucketKey(u.s), u.s, expires_in, d)

NoGen == [raised |-> FALSE, msg |-> Msg("", "", NoUrl), value |-> NoSigned, calls |-> <<>>]

----------------------------------------------------------------------------
(* Requests *)

\* the handlers are run on URLs made of letters, slashes and the two hosts
HandlerTokens == {"a", "/", SUF, BARE}

Urls == SeqsUpTo(HandlerTokens, MaxUrlLen)

\* a str argument "https://" + s, or a JSON value that is not a string
StrUrl(s) == [isStr |-> TRUE, s |-> s]
NonStrUrl == [isStr |-> FALSE, s |-> <<>>]

\* query string items name=value; a blank value is "name="
QItem(name, blank, s) == [name |-> name, blank |-> blank, s |-> s]

ExpItem == QItem("expires_in", FALSE, <<"a">>)

UrlItems == {QItem("url", TRUE, <<>>)} \cup {QItem("url", FALSE, s) : s \in Urls}

GetQueries ==
    {<<>>, <<ExpItem>>} \cup {<<u>> : u \in UrlItems} \cup {<<ExpItem, u>> : u \in UrlItems}

\* JSON values: for an object has_url says the key 'url' is present, for an
\* array that the item "url" is present, for a string that it contains 'url'
JVal(type, has_url, url, has_expires, expires) ==
    [type |-> type, has_url |-> has_url, url |-> url,
     has_expires |-> has_expires, expires |-> expires]

JScalars == {JVal(t, FALSE, NonStrUrl, FALSE, 0) : t \in {"null", "number", "bool"}}

JContainers == {JVal(t, h, NonStrUrl, FALSE, 0) : t \in {"string", "array"}, h \in BOOLEAN}

JObjects ==
    {JVal("object", FALSE, NonStrUrl, FALSE, 0)}
    \cup {JVal("object", FALSE, NonStrUrl, TRUE, x) : x \in ExpiresChoices}
    \cup {JVal("object", TRUE, u, FALSE, 0) : u \in {NonStrUrl} \cup {StrUrl(s) : s \in Urls}}
    \cup {JVal("object", TRUE, u, TRUE, x) :
            u \in {NonStrUrl} \cup {StrUrl(s) : s \in Urls}, x \in ExpiresChoices}

\* request bodies: bytes that are no JSON document (BAD is a byte that is not
\* valid UTF-8), or the encoding of a JSON value
BAD == "\\xff"

RawBodies == {[kind |-> "raw", bytes |-> b, value |-> JVal("null", FALSE, NonStrUrl, FALSE, 0)] :
                b \in {<<>>, <<"n", "o", "t">>, <<BAD>>, <<"n", BAD, "o">>}}

JsonBodies == {[kind |-> "json", bytes |-> <<>>, value |-> v] :
                v \in JScalars \cup JContainers \cup JObjects}

Requests ==
    {[method |-> "OPTIONS"]}
    \cup {[method |-> "GET", query |-> q] : q \in GetQueries}
    \cup {[method |-> "POST", has_content_length |-> TRUE, body |-> b] :
            b \in RawBodies \cup JsonBodies}
    \cup {[method |-> "POST", has_content_length |-> FALSE, body |-> b] :
            b \in {x \in RawBodies : x.bytes = <<>>}}

\* the connection accepts okWrites writes and is broken after them
Envs == [delegate : DelegateOutcomes, okWrites : 0..MaxOkWrites]

----------------------------------------------------------------------------
(* Response pieces *)

None == [kind |-> "None"]

CT_JSON == "Content-Type: application/json"
CORS_ORIGIN == "Access-Control-Allow-Origin: *"
CORS_METHODS == "Access-Control-Allow-Methods: GET, POST, OPTIONS"
CORS_HEADERS == "Access-Control-Allow-Headers: Content-Type"

\* send_response(status); send_header(...)...; end_headers(): one write of
\* the status line and the header block
HeaderBlock(status, headers) == [kind |-> "head", status |-> status, headers |-> headers]

\* json.dumps(d).encode(): the bytes of one JSON document
JsonDoc(d) == [kind |-> "json", doc |-> d]

BROKEN_PIPE == Msg("", "[Errno 32] Broken pipe", NoUrl)

\* wfile.write on a connection that takes ok writes in all
wfile_write(w, item, ok) ==
    IF Len(w) < ok THEN [wire |-> Append(w, item), raised |-> FALSE]
    ELSE [wire |-> w, raised |-> TRUE]

TIME_MS == "processing_time_ms"

MissingUrlGet ==
    [error |-> Msg("", "Missing url parameter", NoUrl),
     usage |-> "GET /?url=https://fleetdata-production.s3.amazonaws.com/..."]

InvalidJson(raw_text) ==
    [error |-> Msg("", "Invalid JSON in request body", NoUrl),
     details |-> "JSONDecodeError",
     raw_data |-> raw_text]

MissingUrlPost(request_data) ==
    [error |-> Msg("", "Missing url in JSON body", NoUrl),
     usage |-> "POST with JSON: {\"url\": \"https://fleetdata-production.s3.amazonaws.com/...\"}",
     received_data |-> request_data]

SuccessBody(s3_url, presigned_url, expires_in) ==
    [original_url |-> s3_url, presigned_url |-> presigned_url, expires_in |-> expires_in,
     status |-> "success", processing_time_ms |-> TIME_MS]

ErrorBody(e) == [error |-> e, status |-> "error", processing_time_ms |-> TIME_MS]

\* the local variables of a handler when it leaves its try block; raised says
\* an exception e is propagating
Frame(w, request_data, response_data, error, g, raised, e) ==
    [wire |-> w, request_data |-> request_data, response_data |-> response_data,
     status_code |-> 200, error |-> error, gen |-> g, raised |-> raised, exc |-> e,
     escaped |-> FALSE]

NoExc == Msg("", "", NoUrl)

----------------------------------------------------------------------------
(* Handlers *)

\* parse_qs: the values of each name in order, blank values dropped
parse_qs(query) ==
    LET vals(name) == SelectSeq(query, LAMBDA it : it.name = name /\ ~it.blank)
    IN  [url |-> vals("url"), expires_in |-> vals("expires_in")]

\* the except clause of do_GET and of do_POST (the same code): a second
\* status line and header block, then the error body
ExceptClause(f, ok) ==
    IF ~f.raised THEN f
    ELSE IF Len(f.wire) >= ok
    THEN [f EXCEPT !.status_code = 500, !.error = f.exc, !.escaped = TRUE]
    ELSE IF Len(f.wire) + 1 >= ok
    THEN [f EXCEPT !.status_code = 500, !.error = f.exc,
                   !.wire = Append(f.wire, HeaderBlock(500, {CT_JSON, CORS_ORIGIN})),
                   !.response_data = ErrorBody(f.exc), !.escaped = TRUE]
    ELSE [f EXCEPT !.status_code = 500, !.error = f.exc,
                   !.wire = f.wire \o <<HeaderBlock(500, {CT_JSON, CORS_ORIGIN}),
                                        JsonDoc(ErrorBody(f.exc))>>,
                   !.response_data = ErrorBody(f.exc)]

\* the end of a try block: the body is written and the handler returns
Respond(w, request_data, response_data, error, g, ok) ==
    IF Len(w) < ok
    THEN Frame(Append(w, JsonDoc(response_data)), request_data, response_data, error, g, FALSE, NoExc)
    ELSE Frame(w, request_data, response_data, error, g, TRUE, BROKEN_PIPE)

\* the try block after the call of generate_presigned_url_from_s3_url
Signed(w, request_data, s3_url, expires_in, g, ok) ==
    IF g.raised
    THEN Frame(w, request_data, None, None, g, TRUE, g.msg)
    ELSE Respond(w, request_data, SuccessBody(s3_url, g.value, expires_in), None, g, ok)

\* the try block of do_GET after the first header block went out
GET_body(w, query_params, e) ==
    IF query_params.url = <<>>
    THEN Respond(w, query_params, MissingUrlGet, MissingUrlGet.error, NoGen, e.okWrites)
    ELSE Signed(w, query_params, StrUrl(query_params.url[1].s), 3600,
                generate_presigned_url_from_s3_url(StrUrl(query_params.url[1].s),
                                                   DEFAULT_EXPIRES_IN, e.delegate),
                e.okWrites)

\* the try block of do_GET
GET_try(req, e) ==
    IF 0 < e.okWrites
    THEN GET_body(<<HeaderBlock(200, {CT_JSON, CORS_ORIGIN})>>, parse_qs(req.query), e)
    ELSE Frame(<<>>, parse_qs(req.query), None, None, NoGen, TRUE, BROKEN_PIPE)

\* bytes.decode('utf-8', errors='ignore'): the invalid bytes are dropped
decode_ignore(bytes) == SelectSeq(bytes, LAMBDA c : c # BAD)

\* bytes.decode('utf-8') raises UnicodeDecodeError on an invalid byte
decode_raises(bytes) == \E i \in 1..Len(bytes) : bytes[i] = BAD

\* 'url' not in request_data raises TypeError on a value that is no container
in_raises(v) == v.type \in {"null", "number", "bool"}

TYPE_ERROR_ITER == Msg("", "argument of type is not iterable", NoUrl)
TYPE_ERROR_INDEX == Msg("", "indices must be integers", NoUrl)
TYPE_ERROR_INT == Msg("", "int() argument must be a string, a bytes-like object or a real number, not 'NoneType'", NoUrl)
UNICODE_ERROR == Msg("", "'utf-8' codec can't decode byte", NoUrl)
JSON_ERROR == Msg("JSON decode error: ", "JSONDecodeError", NoUrl)

\* a lookup that ignores the field of the body
get_expires_in_ignoring_body(request_data) == 3600

\* request_data.get('expires_in', 3600)
get_expires_in(request_data) ==
    IF request_data.has_expires THEN request_data.expires ELSE 3600

\* the try block of do_POST after json.loads returned request_data
POST_parsed(w, request_data, e) ==
    IF in_raises(request_data)
    THEN Frame(w, request_data, None, None, NoGen, TRUE, TYPE_ERROR_ITER)
    ELSE IF ~request_data.has_url
    THEN Respond(w, request_data, MissingUrlPost(request_data),
                 Msg("", "Missing url in request body", NoUrl), NoGen, e.okWrites)
    ELSE IF request_data.type # "object"
    THEN Frame(w, request_data, None, None, NoGen, TRUE, TYPE_ERROR_INDEX)
    ELSE Signed(w, request_data, request_data.url, get_expires_in(request_data),
                generate_presigned_url_from_s3_url(request_data.url,
                                                   get_expires_in(request_data), e.delegate),
                e.okWrites)

\* the try block of do_POST after the first header block went out
POST_body(w, req, e) ==
    IF ~req.has_content_length
    THEN Frame(w, None, None, None, NoGen, TRUE, TYPE_ERROR_INT)
    ELSE IF req.body.kind = "raw" /\ decode_raises(req.body.bytes)
    THEN Frame(w, None, None, None, NoGen, TRUE, UNICODE_ERROR)
    ELSE IF req.body.kind = "raw"
    THEN Respond(w, None, InvalidJson(decode_ignore(req.body.bytes)),
                 JSON_ERROR, NoGen, e.okWrites)
    ELSE POST_parsed(w, req.body.value, e)

\* the try block of do_POST
POST_try(req, e) ==
    IF 0 < e.okWrites
    THEN POST_body(<<HeaderBlock(200, {CT_JSON, CORS_ORIGIN})>>, req, e)
    ELSE Frame(<<>>, None, None, None, NoGen, TRUE, BROKEN_PIPE)

\* log_request_response / log_request_response_debug: one record
LogRecord(method, f) ==
    [method |-> method, request_data |-> f.request_data, response_data |-> f.response_data,
     status_code |-> f.status_code, error |-> f.error]

\* a log call placed after the try statement: skipped when an exception
\* leaves the handler
LoggedAfterTry(l, method, f) ==
    IF f.escaped THEN l ELSE Append(l, LogRecord(method, f))

\* the finally clause: the log call runs however the try statement ends
LoggedFinally(l, method, f) == Append(l, LogRecord(method, f))

\* what a handler leaves behind once its finally clause has run
Finish(method, f, e) ==
    /\ wire' = f.wire
    /\ log' = LoggedFinally(log, method, f)
    /\ calls' = f.gen.calls
    /\ gen' = f.gen
    /\ escaped' = f.escaped
    /\ env' = [e EXCEPT !.delegate = IF f.gen.calls = <<>> THEN "ok" ELSE e.delegate]
    /\ phase' = "done"
    /\ UNCHANGED request

Init ==
    /\ phase = "received"
    /\ request \in Requests
    /\ env = [delegate |-> "ok", okWrites |-> MaxOkWrites]
    /\ wire = <<>>
    /\ log = <<>>
    /\ calls = <<>>
    /\ gen = NoGen
    /\ escaped = FALSE

do_OPTIONS ==
    /\ phase = "received"
    /\ request.method = "OPTIONS"
    /\ \E ok \in 0..MaxOkWrites :
         LET h == wfile_write(<<>>, HeaderBlock(200, {CORS_ORIGIN, CORS_METHODS, CORS_HEADERS}), ok)
         IN  /\ log' = Append(log, [method |-> "OPTIONS", request_data |-> None,
                                    response_data |-> None, status_code |-> 200, error |-> None])
             /\ wire' = h.wire
             /\ escaped' = h.raised
             /\ env' = [delegate |-> "ok", okWrites |-> ok]
    /\ phase' = "done"
    /\ UNCHANGED <<request, calls, gen>>

do_GET ==
    /\ phase = "received"
    /\ request.method = "GET"
    /\ \E e \in Envs : Finish("GET", ExceptClause(GET_try(request, e), e.okWrites), e)

do_POST ==
    /\ phase = "received"
    /\ request.method = "POST"
    /\ \E e \in Envs : Finish("POST", ExceptClause(POST_try(request, e), e.okWrites), e)

Next == do_OPTIONS \/ do_GET \/ do_POST

Spec == Init /\ [][Next]_vars

----------------------------------------------------------------------------
(* Properties of the handlers *)

Done == phase = "done"

GetOrPost == request.method \in {"GET", "POST"}

\* the connection took every write of the handler
Intact == env.okWrites = MaxOkWrites

StatusLines == {i \in 1..Len(wire) : wire[i].kind = "head"}

JsonDocs == {i \in 1..Len(wire) : wire[i].kind = "json"}

\* C1: when URL parsing or the signing delegate fails, the client receives
\* status 500 with the body {error, status: "error", processing_time_ms}: the
\* first and only status line of the response is 500.
C1_FailureIs500 ==
    (Done /\ GetOrPost /\ Intact /\ gen.raised)
    => /\ Len(wire) = 2
       /\ wire[1].kind = "head"
       /\ wire[1].status = 500
       /\ wire[2] = JsonDoc(ErrorBody(gen.msg))

\* C2: on every path of GET and POST, what follows the single header block is
\* exactly one JSON document and nothing else.
C2_BodyIsOneJsonDocument ==
    (Done /\ GetOrPost /\ Intact)
    => /\ Len(wire) = 2
       /\ wire[1].kind = "head"
       /\ wire[2].kind = "json"

\* C10: the status code of the log record is the status code of the status
\* line the client received, and one status line with one header block is
\* emitted per request.
C10_LoggedStatusIsSentStatus ==
    (Done /\ GetOrPost /\ Intact)
    => /\ Cardinality(StatusLines) = 1
       /\ Len(log) = 1
       /\ wire[1].kind = "head"
       /\ log[1].status_code = wire[1].status

\* the body of the request is no JSON document
UnparsableBody ==
    /\ request.method = "POST"
    /\ request.has_content_length
    /\ request.body.kind = "raw"

\* C7: a POST whose body is not JSON (bytes that are not valid UTF-8 included)
\* is answered with error "Invalid JSON in request body", details and
\* raw_data equal to the body text; the delegate is not invoked and the
\* request is not reported as an internal failure.
C7_UnparsableBodyIsInputError ==
    (Done /\ Intact /\ UnparsableBody)
    => /\ calls = <<>>
       /\ log[1].status_code # 500
       /\ Len(wire) = 2
       /\ wire[2].kind = "json"
       /\ DOMAIN wire[2].doc = {"error", "details", "raw_data"}
       /\ wire[2].doc.error.text = "Invalid JSON in request body"
       /\ (\A i \in 1..Len(request.body.bytes) : request.body.bytes[i] # BAD)
            => wire[2].doc.raw_data = request.body.bytes

\* a GET without a url parameter
GetWithoutUrl ==
    /\ request.method = "GET"
    /\ \A i \in 1..Len(request.query) : request.query[i].name # "url"

\* a POST whose body is a JSON value without a 'url' field
PostWithoutUrl ==
    /\ request.method = "POST"
    /\ request.has_content_length
    /\ request.body.kind = "json"
    /\ ~(request.body.value.type = "object" /\ request.body.value.has_url)

\* C8: a request without url input never reaches the delegate and gets the
\* missing-url body: {error: "Missing url parameter", usage} for GET,
\* {error, usage, received_data} with the parsed payload for POST, whatever
\* JSON value the payload is.
C8_MissingUrlIsInputError ==
    /\ (Done /\ Intact /\ GetWithoutUrl)
       => /\ calls = <<>>
          /\ Len(wire) = 2
          /\ wire[2].kind = "json"
          /\ DOMAIN wire[2].doc = {"error", "usage"}
          /\ wire[2].doc.error.text = "Missing url parameter"
    /\ (Done /\ Intact /\ PostWithoutUrl)
       => /\ calls = <<>>
          /\ Len(wire) = 2
          /\ wire[2].kind = "json"
          /\ DOMAIN wire[2].doc = {"error", "usage", "received_data"}
          /\ wire[2].doc.received_data = request.body.value

\* the success documents on the wire
SuccessDocs ==
    {i \in JsonDocs : "status" \in DOMAIN wire[i].doc /\ wire[i].doc.status = "success"}

\* the expiration the request asks for
RequestedExpiry ==
    IF request.method = "POST" /\ request.body.value.has_expires
    THEN request.body.value.expires
    ELSE 3600

\* a GET, or a POST whose JSON body is an object with a url
CarriesUrl ==
    \/ request.method = "GET"
    \/ /\ request.method = "POST"
       /\ request.has_content_length
       /\ request.body.kind = "json"
       /\ request.body.value.type = "object"
       /\ request.body.value.has_url

\* C6: the expiration passed to the delegate and the expires_in of the success
\* response are the same value: the expires_in of the POST body when present,
\* otherwise 3600; for GET both are 3600 whatever the query string holds.
C6_ExpiryPassedAndReported ==
    (Done /\ CarriesUrl)
    => /\ \A i \in 1..Len(calls) : calls[i].ExpiresIn = RequestedExpiry
       /\ \A i \in SuccessDocs : wire[i].doc.expires_in = RequestedExpiry
       /\ SuccessDocs # {} => Len(calls) = 1

\* a POST with its own expires_in was signed and answered with success
C6_Witness ==
    /\ Done
    /\ request.method = "POST"
    /\ CarriesUrl
    /\ request.body.value.has_expires
    /\ request.body.value.expires = 120
    /\ Len(calls) = 1
    /\ SuccessDocs # {}

\* C9: every OPTIONS, GET or POST request, whatever its outcome, has emitted
\* exactly one log record when the handler returns, also when an exception
\* leaves the handler.
C9_OneLogRecordPerRequest ==
    Done => /\ Len(log) = 1
            /\ log[1].method = request.method

\* an exception left a GET or POST handler, and the record is there
C9_Witness ==
    /\ Done
    /\ GetOrPost
    /\ escaped
    /\ Len(log) = 1
    /\ log[1].status_code = 500

----------------------------------------------------------------------------
(* The parser on its own: one call of generate_presigned_url_from_s3_url  *)

InitParse ==
    /\ phase = "call"
    /\ request \in {[method |-> "CALL", s3_url |-> s] : s \in SeqsUpTo(Tokens, MaxParseLen)}
    /\ env = [delegate |-> "ok", okWrites |-> 0]
    /\ wire = <<>>
    /\ log = <<>>
    /\ calls = <<>>
    /\ gen = NoGen
    /\ escaped = FALSE

Returning(r, d) ==
    /\ gen' = r
    /\ calls' = r.calls
    /\ escaped' = r.raised
    /\ env' = [delegate |-> IF r.calls = <<>> THEN "ok" ELSE d, okWrites |-> 0]
    /\ phase' = "returned"
    /\ UNCHANGED <<request, wire, log>>

Generate ==
    /\ phase = "call"
    /\ \E d \in DelegateOutcomes :
         Returning(generate_presigned_url_from_s3_url(StrUrl(request.s3_url), DEFAULT_EXPIRES_IN, d), d)

NextParse == Generate

SpecParse == InitParse /\ [][NextParse]_vars

----------------------------------------------------------------------------
(* Properties of the parser, stated on the text of the URL *)

Delims == {"/", "?", "#"}

\* the host of "https://" + s: the text up to the first '/', '?' or '#'
IsHostOf(h, s) ==
    /\ Len(h) <= Len(s)
    /\ h = SubSeq(s, 1, Len(h))
    /\ \A i \in 1..Len(h) : h[i] \notin Delims
    /\ Len(h) < Len(s) => s[Len(h) + 1] \in Delims

HostOf(s) == CHOOSE h \in {SubSeq(s, 1, n) : n \in 0..Len(s)} : IsHostOf(h, s)

EndsWithSuffix(h) == h # <<>> /\ h[Len(h)] = SUF

Returned == phase = "returned"

UnrecognizedRaised ==
    /\ gen.raised
    /\ gen.msg.text = TXT_UNRECOGNIZED
    /\ gen.msg.url = request.s3_url
    /\ calls = <<>>

IncompleteRaised ==
    /\ gen.raised
    /\ gen.msg.text = TXT_INCOMPLETE
    /\ gen.msg.url = request.s3_url
    /\ calls = <<>>

\* a URL "https://" + host + "/" + key whose host starts with a letter and
\* whose key is not empty: only the format of the host can make it invalid
HasLabelAndKey(s) ==
    /\ s # <<>>
    /\ Head(s) = "a"
    /\ Len(HostOf(s)) + 2 <= Len(s)
    /\ s[Len(HostOf(s)) + 1] = "/"
    /\ \A i \in (Len(HostOf(s)) + 2)..Len(s) : s[i] = "a"

\* C3: a URL whose host neither ends with ".s3.amazonaws.com" nor equals
\* "s3.amazonaws.com" fails with the unrecognized-format error carrying the
\* URL, and the signing delegate is not invoked (also when the host merely
\* contains the suffix in the middle).  Stated for the URLs that have a host
\* starting with a letter and a key, which nothing but the host can reject.
C3_UnrecognizedHostRejected ==
    (/\ Returned
     /\ HasLabelAndKey(request.s3_url)
     /\ ~EndsWithSuffix(HostOf(request.s3_url))
     /\ HostOf(request.s3_url) # <<BARE>>)
    => UnrecognizedRaised

\* C4: for "https://{bucket}.s3.amazonaws.com/{key}" with non-empty bucket and
\* key, the delegate receives exactly (bucket, key): the bucket is the whole
\* host before the suffix, the key is everything after the one slash.
C4_VirtualHostedExact ==
    Returned =>
        \A i \in 2..(Len(request.s3_url) - 2) :
            LET s == request.s3_url
            IN  (/\ s[i] = SUF
                 /\ s[i + 1] = "/"
                 /\ \A j \in 1..(i - 1) : s[j] \notin Delims)
                => calls = <<[Bucket |-> SubSeq(s, 1, i - 1),
                              Key |-> SubSeq(s, i + 2, Len(s)),
                              ExpiresIn |-> DEFAULT_EXPIRES_IN]>>

\* the path of a path-style URL made of letters and slashes only
PlainPath(p) ==
    /\ p # <<>> => Head(p) = "/"
    /\ \A i \in 1..Len(p) : p[i] \in {"a", "/"}

\* C5: for "https://s3.amazonaws.com" + path, the path is split on the first
\* slash after the leading one and (bucket, key) goes to the delegate; when
\* the bucket or the key is empty the incomplete-reference error is raised
\* and the delegate is not invoked.
C5_PathStyleSplit ==
    (/\ Returned
     /\ request.s3_url # <<>>
     /\ Head(request.s3_url) = BARE
     /\ PlainPath(Tail(request.s3_url)))
    => LET p    == Tail(request.s3_url)
           rest == IF p = <<>> THEN <<>> ELSE Tail(p)
           cut  == {i \in 1..Len(rest) : rest[i] = "/" /\ \A j \in 1..(i - 1) : rest[j] # "/"}
           bucket == IF cut = {} THEN rest ELSE SubSeq(rest, 1, (CHOOSE i \in cut : TRUE) - 1)
           key    == IF cut = {} THEN <<>> ELSE SubSeq(rest, (CHOOSE i \in cut : TRUE) + 1, Len(rest))
       IN  IF bucket = <<>> \/ key = <<>>
           THEN IncompleteRaised
           ELSE calls = <<[Bucket |-> bucket, Key |-> key, ExpiresIn |-> DEFAULT_EXPIRES_IN]>>

====
